---------------------------- MODULE Spec2Model ----------------------------
(***************************************************************************)
(* FitMate daily ledger: the data layer of utils/dataUtils (localStorage   *)
(* keys fitmate_logs, fitmate_foods, fitmate_exercises; getTodayLog,       *)
(* addMeal, updateWaterIntake, toggleExerciseCompletion,                   *)
(* calculateTodayStats) and the Nutrition page that drives addMeal.        *)
(*                                                                         *)
(* Execution model: one browser event loop.  Every setTimeout callback is  *)
(* one task; the continuation of an `await` on a promise resolved inside   *)
(* a task runs as a microtask of that same task, so a timer callback and   *)
(* the continuations it wakes form one atomic action.  Time is counted in  *)
(* units of 100 ms.                                                        *)
(*                                                                         *)
(* Numbers that may be fractional (nutrition values, quantities, totals)   *)
(* are fixed-point integers: the real x is represented by Scale * x.      *)
(* Calendar dates (the 'yyyy-MM-dd' strings) are represented by their day  *)
(* ordinal relative to the day the store was seeded.                       *)
(***************************************************************************)
EXTENDS Integers, Sequences, FiniteSets, TLC

VARIABLES
    logs,              \* localStorage 'fitmate_logs': sequence of DailyLog
    foods,             \* localStorage 'fitmate_foods': sequence of FoodItem
    exercisesStore,    \* localStorage 'fitmate_exercises': the exercise catalog
    today,             \* calendar day that new Date() currently falls on
    now,               \* Date.now(), millisecond clock (abstract, monotone)
    timers,            \* pending setTimeout callbacks, in creation order
    apiCalls,          \* number of data-layer calls issued by other callers
    adds,              \* number of handleAddFood invocations so far
    mounted,           \* Nutrition page: component mounted (fetchData started)
    loading,           \* Nutrition page: loading state
    dailyLog,          \* Nutrition page: dailyLog state (Null before the fetch)
    foodItems,         \* Nutrition page: foodItems state
    todayStats,        \* Nutrition page: todayStats state
    showAddFoodModal,  \* Nutrition page: showAddFoodModal state
    selectedMealType,  \* Nutrition page: selectedMealType state
    last,              \* history: the most recent data-layer callback that ran
    base,              \* history: date -> exercise list the day's log started with
    landed,            \* history: date -> mutations whose write has landed
    lastAdd,           \* history: the most recent handleAddFood invocation
    entered,           \* history: the entries handleAddFood was called with
    dashMounted,       \* Dashboard page: component mounted (fetchData started)
    dashLoading,       \* Dashboard page: loading state
    dashLog,           \* Dashboard page: dailyLog state
    stats,             \* Dashboard page: stats state
    clicks,            \* number of clicks on the WaterTracker buttons so far
    lastClick,         \* history: the most recent WaterTracker click
    users,             \* authUtils: the module's users array
    authUser,          \* authUtils: the module's authUser (Null when logged out)
    storedUser,        \* localStorage 'fitmate_user' (Null when absent)
    authCalls,         \* number of calls of the authUtils functions so far
    lastAuth,          \* history: the most recent settled authUtils call
    credentials,       \* history: lower-case email -> password given to register
    exMounted,         \* Exercises page: component mounted (fetchExercises started)
    exLoading,         \* Exercises page: loading state
    exercises,         \* Exercises page: exercises state
    toggleClicks,      \* number of clicks on an ExerciseItem toggle so far
    location,          \* router: the path of the current location
    rendered,          \* router: the page component rendered for it
    userAtRender,      \* history: what getCurrentUser() returned at that render
    reloads            \* number of page reloads (module initialisations) so far

vars == <<logs, foods, exercisesStore, today, now, timers, apiCalls, adds,
          mounted, loading, dailyLog, foodItems, todayStats, showAddFoodModal,
          selectedMealType, last, base, landed, lastAdd, entered,
          dashMounted, dashLoading, dashLog, stats, clicks, lastClick,
          users, authUser, storedUser, authCalls, lastAuth, credentials,
          exMounted, exLoading, exercises, toggleClicks,
          location, rendered, userAtRender, reloads>>

exVars == <<exMounted, exLoading, exercises, toggleClicks>>
routeVars == <<location, rendered, userAtRender, reloads>>
authVars == <<users, authUser, storedUser, authCalls, lastAuth, credentials>>
dashVars == <<dashMounted, dashLoading, dashLog, stats, clicks, lastClick>>
storeVars == <<logs, foods, exercisesStore>>
pageVars == <<mounted, loading, dailyLog, foodItems, todayStats,
              showAddFoodModal, selectedMealType>>

-----------------------------------------------------------------------------
(* Bounds of the model.                                                    *)

MaxDay == 1            \* day rollovers after the seeding day
MaxApiCalls == 2       \* data-layer calls issued by callers other than Nutrition
MaxAdds == 2           \* handleAddFood invocations

-----------------------------------------------------------------------------
(* Program constants.                                                      *)

Scale == 20                  \* fixed-point denominator: tenths times halves
Null == [null |-> TRUE]      \* JavaScript null / undefined
SeedDay == 0                 \* the day initializeData seeded the store
GetDelay == 3                \* setTimeout(..., 300)
AddMealDelay == 5            \* setTimeout(..., 500)
MutationDelay == 3           \* setTimeout(..., 300)
NumPreviousLogs == 6         \* Array.from({ length: 6 })
SeedWater == 5               \* MOCK_TODAY_LOG.waterIntake
NowStart == 100              \* Date.now() when the page is loaded

MealTypes == <<"breakfast", "lunch", "dinner", "snack">>

Num(x) == Scale * x
Tenths(x) == 2 * x           \* the decimal x/10 as a fixed-point number

Food(id, cal, pro, carb, fat) ==
    [id |-> id, calories |-> cal, protein |-> pro, carbs |-> carb, fat |-> fat]

MOCK_FOOD_ITEMS ==
    << Food(1,  Num(350), Num(10),    Num(50),     Num(7)),
       Food(2,  Num(165), Num(31),    Num(0),      Tenths(36)),
       Food(3,  Num(215), Tenths(45), Num(45),     Tenths(18)),
       Food(4,  Num(55),  Tenths(37), Tenths(112), Tenths(6)),
       Food(5,  Num(208), Num(22),    Num(0),      Num(13)),
       Food(6,  Num(100), Num(17),    Num(6),      Tenths(4)),
       Food(7,  Num(140), Num(12),    Num(1),      Num(10)),
       Food(8,  Num(290), Num(8),     Num(30),     Num(15)),
       Food(9,  Num(150), Num(25),    Num(5),      Num(2)),
       Food(10, Num(162), Num(6),     Num(6),      Num(14)) >>

NumExercises == 7
MOCK_EXERCISES == [i \in 1..NumExercises |-> [id |-> i, completed |-> FALSE]]


-----------------------------------------------------------------------------
(* Seed data (data/mockData).                                              *)

RECURSIVE PlainSum(_, _)
PlainSum(fs, field) ==
    IF fs = <<>> THEN 0
    ELSE PlainSum(SubSeq(fs, 1, Len(fs) - 1), field) + fs[Len(fs)][field]

SeedMeal(id, type, idx) ==
    LET fs == [k \in 1..Len(idx) |-> MOCK_FOOD_ITEMS[idx[k]]]
    IN  [id |-> id, type |-> type,
         items |-> [k \in 1..Len(idx) |-> [item |-> fs[k], quantity |-> Num(1)]],
         totalCalories |-> PlainSum(fs, "calories"),
         totalProtein  |-> PlainSum(fs, "protein"),
         totalCarbs    |-> PlainSum(fs, "carbs"),
         totalFat      |-> PlainSum(fs, "fat")]

generateTodayMeals ==
    << SeedMeal(1, "breakfast", <<1, 6>>),
       SeedMeal(2, "lunch",     <<2, 3, 4>>),
       SeedMeal(3, "dinner",    <<5, 4>>),
       SeedMeal(4, "snack",     <<10>>) >>

MOCK_TODAY_LOG ==
    [date |-> SeedDay, meals |-> generateTodayMeals,
     exercises |-> MOCK_EXERCISES, waterIntake |-> SeedWater, weight |-> Num(75)]

\* Math.random(): the draws of one seeding, in tenths; draw n of log index
RandomDraw(index, n) == (3 * index + 7 * n) % 10

MOCK_PREVIOUS_LOGS ==
    [k \in 1..NumPreviousLogs |->
        LET index == k - 1
        IN  [date |-> SeedDay - (6 - index),
             meals |-> [m \in 1..Len(generateTodayMeals) |->
                          [generateTodayMeals[m] EXCEPT !.id = @ + index * 10]],
             exercises |-> [i \in 1..Len(MOCK_EXERCISES) |->
                          [MOCK_EXERCISES[i] EXCEPT
                              !.completed = (RandomDraw(index, i) > 3)]],
             waterIntake |-> (RandomDraw(index, 0) * 5) \div 10 + 3,
             weight |-> Num(75) + Tenths(RandomDraw(index, 8) - 5)]]

MOCK_ALL_LOGS == <<MOCK_TODAY_LOG>> \o MOCK_PREVIOUS_LOGS

-----------------------------------------------------------------------------
(* Helpers over the stored list.                                           *)

\* Array.prototype.find over logs: index of the first log of that date, 0 if none
FindLog(ls, date) ==
    IF \E i \in 1..Len(ls) : ls[i].date = date
    THEN CHOOSE i \in 1..Len(ls) :
            /\ ls[i].date = date
            /\ \A j \in 1..(i - 1) : ls[j].date # date
    ELSE 0

\* Variant of MapReplace: the comparison never matches, no log is replaced
MapReplace_NeverMatches(ls, todayLog) == ls

\* Variant of MapReplace: the date comparison is missing, every log is replaced
MapReplace_EveryLog(ls, todayLog) == [i \in 1..Len(ls) |-> todayLog]

\* Variant of MapReplace: a filter in place of the map, only today's log is kept
MapReplace_KeepsOnlyToday(ls, todayLog) ==
    [i \in 1..Cardinality({k \in 1..Len(ls) : ls[k].date = todayLog.date}) |-> todayLog]

\* logs.map(log => log.date === todayLog.date ? todayLog : log)
MapReplace(ls, todayLog) ==
    [i \in 1..Len(ls) |-> IF ls[i].date = todayLog.date THEN todayLog ELSE ls[i]]

\* Variant of NewLog: the exercises are the imported seed, not the stored catalog
NewLog_SeedCatalog(date, catalog) ==
    [date |-> date, meals |-> <<>>, exercises |-> MOCK_EXERCISES, waterIntake |-> 0]

\* The log created for a day that has none
NewLog(date, catalog) ==
    [date |-> date, meals |-> <<>>, exercises |-> catalog, waterIntake |-> 0]

\* Variant of GetTodayLog: the lookup result is ignored, a log is always appended
GetTodayLog_AlwaysAppends(ls, date, catalog) ==
    [log |-> NewLog(date, catalog), logs |-> Append(ls, NewLog(date, catalog))]

\* Variant of GetTodayLog: the created log is not saved
GetTodayLog_NoSave(ls, date, catalog) ==
    LET i == FindLog(ls, date)
    IN  IF i # 0
        THEN [log |-> ls[i], logs |-> ls]
        ELSE [log |-> NewLog(date, catalog), logs |-> ls]

\* Variant of GetTodayLog: the exercises of a found log are read from the catalog
GetTodayLog_RereadsCatalog(ls, date, catalog) ==
    LET i == FindLog(ls, date)
    IN  IF i # 0
        THEN [log |-> [ls[i] EXCEPT !.exercises = catalog], logs |-> ls]
        ELSE [log |-> NewLog(date, catalog),
              logs |-> Append(ls, NewLog(date, catalog))]

\* The body of getTodayLog's timer callback: the log it resolves with and the
\* list it leaves in the store.
GetTodayLog(ls, date, catalog) ==
    LET i == FindLog(ls, date)
    IN  IF i # 0
        THEN [log |-> ls[i], logs |-> ls]
        ELSE [log |-> NewLog(date, catalog),
              logs |-> Append(ls, NewLog(date, catalog))]

\* addMeal after the await: append the meal, map, setItem
AddMealWrite(ls, todayLog, newMeal) ==
    MapReplace(ls, [todayLog EXCEPT !.meals = Append(@, newMeal)])

\* Variant of WaterWrite: the amount is clamped to 12 glasses before it is stored
WaterWrite_Clamped(ls, todayLog, amount) ==
    MapReplace(ls, [todayLog EXCEPT
                      !.waterIntake = IF amount > 12 THEN 12 ELSE amount])

\* updateWaterIntake after the await
WaterWrite(ls, todayLog, amount) ==
    MapReplace(ls, [todayLog EXCEPT !.waterIntake = amount])

\* Variant of ToggleExercises: the matching exercise is marked completed
ToggleExercises_MarksCompleted(exs, exerciseId) ==
    [i \in 1..Len(exs) |->
        IF exs[i].id = exerciseId
        THEN [exs[i] EXCEPT !.completed = TRUE]
        ELSE exs[i]]

\* Variant of ToggleExercises: the id comparison is inverted
ToggleExercises_InvertedTest(exs, exerciseId) ==
    [i \in 1..Len(exs) |->
        IF exs[i].id # exerciseId
        THEN [exs[i] EXCEPT !.completed = ~ @]
        ELSE exs[i]]

\* todayLog.exercises.map(ex => ex.id === exerciseId ? {...ex, completed: !ex.completed} : ex)
ToggleExercises(exs, exerciseId) ==
    [i \in 1..Len(exs) |->
        IF exs[i].id = exerciseId
        THEN [exs[i] EXCEPT !.completed = ~ @]
        ELSE exs[i]]

\* toggleExerciseCompletion after the await
ToggleWrite(ls, todayLog, exerciseId) ==
    MapReplace(ls, [todayLog EXCEPT !.exercises = ToggleExercises(@, exerciseId)])

\* Variant of SumMeals: the reduce starts from the first meal's total twice
SumMeals_CountsFirstTwice(meals, field) ==
    IF meals = <<>> THEN 0
    ELSE meals[1][field] + meals[1][field]

RECURSIVE SumMeals(_, _)
SumMeals(meals, field) ==
    IF meals = <<>> THEN 0
    ELSE SumMeals(SubSeq(meals, 1, Len(meals) - 1), field) + meals[Len(meals)][field]

\* Variant of CountCompleted: the filter keeps every exercise
CountCompleted_CountsAll(exs) == Len(exs)

\* todayLog.exercises.filter(ex => ex.completed).length
CountCompleted(exs) == Cardinality({i \in 1..Len(exs) : exs[i].completed})

\* calculateTodayStats after the await: the reduce over todayLog.meals
CalculateStats(todayLog) ==
    [caloriesConsumed |-> SumMeals(todayLog.meals, "totalCalories"),
     proteinConsumed  |-> SumMeals(todayLog.meals, "totalProtein"),
     carbsConsumed    |-> SumMeals(todayLog.meals, "totalCarbs"),
     fatConsumed      |-> SumMeals(todayLog.meals, "totalFat"),
     waterIntake      |-> todayLog.waterIntake,
     completedExercises |-> CountCompleted(todayLog.exercises)]

-----------------------------------------------------------------------------
(* Nutrition page helpers (pages/Nutrition, components/AddFoodModal).      *)

\* x * y on fixed-point numbers
Mul(x, y) == (x * y) \div Scale

\* updatedItems.reduce((sum, {item, quantity}) => sum + item.f * quantity, 0)
RECURSIVE ReduceItems(_, _)
ReduceItems(items, field) ==
    IF items = <<>> THEN 0
    ELSE ReduceItems(SubSeq(items, 1, Len(items) - 1), field)
         + Mul(items[Len(items)].item[field], items[Len(items)].quantity)

\* handleAddFood, existing-meal branch: the meal with the entry appended
UpdatedMeal(existingMeal, food, quantity) ==
    LET updatedItems == Append(existingMeal.items, [item |-> food, quantity |-> quantity])
    IN  [existingMeal EXCEPT
            !.items = updatedItems,
            !.totalCalories = ReduceItems(updatedItems, "calories"),
            !.totalProtein  = ReduceItems(updatedItems, "protein"),
            !.totalCarbs    = ReduceItems(updatedItems, "carbs"),
            !.totalFat      = ReduceItems(updatedItems, "fat")]

\* Variant of NewMeal: the totals are the per-serving values, not multiplied
NewMeal_IgnoresQuantity(food, quantity, mealType) ==
    [type |-> mealType,
     items |-> << [item |-> food, quantity |-> quantity] >>,
     totalCalories |-> food.calories,
     totalProtein  |-> food.protein,
     totalCarbs    |-> food.carbs,
     totalFat      |-> food.fat]

\* handleAddFood, new-meal branch: the Omit<Meal, 'id'> handed to addMeal
NewMeal(food, quantity, mealType) ==
    [type |-> mealType,
     items |-> << [item |-> food, quantity |-> quantity] >>,
     totalCalories |-> Mul(food.calories, quantity),
     totalProtein  |-> Mul(food.protein, quantity),
     totalCarbs    |-> Mul(food.carbs, quantity),
     totalFat      |-> Mul(food.fat, quantity)]

\* { ...meal, id: Date.now() }
WithId(meal, id) ==
    [id |-> id, type |-> meal.type, items |-> meal.items,
     totalCalories |-> meal.totalCalories, totalProtein |-> meal.totalProtein,
     totalCarbs |-> meal.totalCarbs, totalFat |-> meal.totalFat]

\* dailyLog.meals.find(meal => meal.type === mealType): index, 0 if none
FindMeal(meals, mealType) ==
    IF \E i \in 1..Len(meals) : meals[i].type = mealType
    THEN CHOOSE i \in 1..Len(meals) :
            /\ meals[i].type = mealType
            /\ \A j \in 1..(i - 1) : meals[j].type # mealType
    ELSE 0

\* dailyLog.meals.map(meal => meal.id === existingMeal.id ? updatedMeal : meal)
ReplaceMeal(meals, existingMeal, updatedMeal) ==
    [i \in 1..Len(meals) |->
        IF meals[i].id = existingMeal.id THEN updatedMeal ELSE meals[i]]

\* What the quantity field holds when "Add Food" is clicked, as typed text:
\* the emptied field, or two servings
TypedQuantities == {"", "2"}

\* Number(e.target.value), as a fixed-point number
NumberOf(text) ==
    CASE text = ""  -> 0
      [] text = "2" -> Num(2)

-----------------------------------------------------------------------------
(* Inputs the model draws from.                                            *)

NumToggled == 1        \* exercise ids 1..NumToggled are the ones toggled
UnknownId == NumExercises + 1     \* an id MOCK_EXERCISES does not contain
ToggleIds == (1..NumToggled) \cup {UnknownId}
MealFoods == {MOCK_FOOD_ITEMS[2]}  \* the food direct addMeal calls are built from
MealQuantities == {Num(2)}
WaterAmounts == {3, 13}           \* one amount inside [0, 12], one outside

\* Values the environment may leave under 'fitmate_exercises': the seed, and
\* the seed with its first exercise removed and one more exercise added.
CatalogChoices ==
    { MOCK_EXERCISES,
      Append(Tail(MOCK_EXERCISES), [id |-> UnknownId, completed |-> FALSE]) }

-----------------------------------------------------------------------------
(* Timers.                                                                  *)

Mutations == {"meal", "water", "toggle"}

\* the data-layer functions with a timer pending
InFlight == {timers[i].op : i \in 1..Len(timers)}

\* setTimeout(callback, delay): op is the data-layer function the callback
\* belongs to, pc which of its timers this is, owner the caller awaiting it.
Timer(op, pc, delay, arg, owner, closure) ==
    [op |-> op, pc |-> pc, rem |-> delay, delay |-> delay, arg |-> arg,
     owner |-> owner, closure |-> closure]

\* Variant of Due: timers whose delay has elapsed run in any order
Due_AnyOrder(i) ==
    /\ i \in 1..Len(timers)
    /\ timers[i].rem = 0

\* A timer may run when its delay has elapsed; timers of equal delay run in
\* the order they were created.
Due(i) ==
    /\ i \in 1..Len(timers)
    /\ timers[i].rem = 0
    /\ \A j \in 1..(i - 1) :
          ~ (timers[j].rem = 0 /\ timers[j].delay = timers[i].delay)

Remove(q, i) == SubSeq(q, 1, i - 1) \o SubSeq(q, i + 1, Len(q))

\* 100 ms pass; no timer is overdue
Tick ==
    /\ timers # <<>>
    /\ \A i \in 1..Len(timers) : timers[i].rem > 0
    /\ timers' = [i \in 1..Len(timers) |-> [timers[i] EXCEPT !.rem = @ - 1]]
    /\ UNCHANGED <<storeVars, today, now, apiCalls, adds, pageVars,
                   last, base, landed, lastAdd, entered, dashVars, authVars,
                   exVars, routeVars>>

-----------------------------------------------------------------------------
(* History variables.                                                      *)

NoLanding == [op |-> "none", arg |-> 0, owner |-> "none", day |-> SeedDay,
              before |-> <<>>, catalog |-> <<>>, result |-> 0,
              pending |-> {}, overlap |-> "none", created |-> FALSE]

\* pending: the functions left with a timer pending; overlap: the function
\* whose callback ran before this one, on this day, while this call was
\* pending already (calls of one function run in the order they were made)
Landing(i, r, result) ==
    LET t == timers[i]
    IN  [op |-> t.op, arg |-> t.arg, owner |-> t.owner, day |-> today,
         before |-> logs, catalog |-> exercisesStore, result |-> result,
         pending |-> {timers[j].op : j \in (1..Len(timers)) \ {i}},
         overlap |-> IF last.day = today /\ t.op \in last.pending
                     THEN last.op ELSE "none",
         created |-> (r.logs # logs)]

NoEffects == [meals |-> <<>>, water |-> <<>>, flipped |-> {}, count |-> 0]

NoAdd == [branch |-> "none", food |-> Null, quantity |-> 0,
          mealType |-> "none", day |-> SeedDay]

\* base and landed after getTodayLog ran on day d
BaseAfterGet(r) ==
    [d \in DOMAIN base \cup {r.log.date} |->
        IF d \in DOMAIN base THEN base[d] ELSE r.log]

LandedAfterGet(r) ==
    [d \in DOMAIN landed \cup {r.log.date} |->
        IF d \in DOMAIN landed THEN landed[d] ELSE NoEffects]

-----------------------------------------------------------------------------
(* The environment: the calendar and the catalog key.                      *)

\* Midnight passes: format(new Date(), 'yyyy-MM-dd') changes
DayRollover ==
    /\ today < MaxDay
    /\ today' = today + 1
    /\ UNCHANGED <<storeVars, now, timers, apiCalls, adds, pageVars,
                   last, base, landed, lastAdd, entered, dashVars, authVars,
                   exVars, routeVars>>

\* The value under 'fitmate_exercises' is replaced (no function of the
\* data layer does this; the key is plain browser storage)
SetExerciseCatalog(catalog) ==
    /\ catalog # exercisesStore
    /\ exercisesStore' = catalog
    /\ UNCHANGED <<logs, foods, today, now, timers, apiCalls, adds, pageVars,
                   last, base, landed, lastAdd, entered, dashVars, authVars,
                   exVars, routeVars>>

-----------------------------------------------------------------------------
(* Calls into the data layer by callers other than the Nutrition page.     *)

\* (the timer carries the ordinal of the call, for the history)
Issue(t) ==
    /\ apiCalls < MaxApiCalls
    /\ apiCalls' = apiCalls + 1
    /\ timers' = Append(timers, [t EXCEPT !.closure = [seq |-> apiCalls + 1]])
    /\ UNCHANGED <<storeVars, today, now, adds, pageVars, last, base, landed, lastAdd, entered, dashVars, authVars,
                   exVars, routeVars>>

IssueGetTodayLog ==
    Issue(Timer("get", "inner", GetDelay, 0, "api", Null))

IssueCalculateTodayStats ==
    Issue(Timer("stats", "inner", GetDelay, 0, "api", Null))

\* addMeal(meal) with no page awaiting it
IssueAddMeal(meal) ==
    Issue(Timer("meal", "outer", AddMealDelay, meal, "api", Null))

IssueUpdateWaterIntake(amount) ==
    Issue(Timer("water", "outer", MutationDelay, amount, "api", Null))

IssueToggleExerciseCompletion(exerciseId) ==
    Issue(Timer("toggle", "outer", MutationDelay, exerciseId, "api", Null))

\* The first timer of addMeal / updateWaterIntake / toggleExerciseCompletion
\* runs: the async callback calls getTodayLog(), which sets the second timer.
FireOuter(i) ==
    /\ Due(i)
    /\ timers[i].pc = "outer"
    /\ timers' = Append(Remove(timers, i),
                        [timers[i] EXCEPT !.pc = "inner", !.rem = GetDelay,
                                          !.delay = GetDelay])
    /\ UNCHANGED <<storeVars, today, now, apiCalls, adds, pageVars,
                   last, base, landed, lastAdd, entered, dashVars, authVars,
                   exVars, routeVars>>


-----------------------------------------------------------------------------
(* The second timer runs: getTodayLog's callback, then, in the same task,   *)
(* the code after `await getTodayLog()` and the code awaiting that.        *)

Landable(i, op) ==
    /\ Due(i)
    /\ timers[i].pc = "inner"
    /\ timers[i].op = op

\* the four fields the Nutrition page keeps of the stats
PageStats(result) ==
    [caloriesConsumed |-> result.caloriesConsumed,
     proteinConsumed  |-> result.proteinConsumed,
     carbsConsumed    |-> result.carbsConsumed,
     fatConsumed      |-> result.fatConsumed]

\* getTodayLog() called directly
LandGetTodayLog(i) ==
    /\ Landable(i, "get")
    /\ LET r == GetTodayLog(logs, today, exercisesStore)
       IN  /\ logs' = r.logs
           /\ last' = Landing(i, r, r.log)
           /\ base' = BaseAfterGet(r)
           /\ landed' = LandedAfterGet(r)
    /\ timers' = Remove(timers, i)
    /\ UNCHANGED <<foods, exercisesStore, today, now, apiCalls, adds, pageVars, lastAdd, entered, dashVars, authVars,
                   exVars, routeVars>>

\* calculateTodayStats(); the Nutrition page awaits it at the end of
\* fetchData and of handleAddFood, the Dashboard page at the end of its
\* fetchData (setStats, then setLoading(false) in the finally block)
LandCalculateTodayStats(i) ==
    /\ Landable(i, "stats")
    /\ LET r == GetTodayLog(logs, today, exercisesStore)
           result == CalculateStats(r.log)
       IN  /\ logs' = r.logs
           /\ last' = Landing(i, r, result)
           /\ base' = BaseAfterGet(r)
           /\ landed' = LandedAfterGet(r)
           /\ CASE timers[i].owner = "api" ->
                    UNCHANGED <<todayStats, loading, showAddFoodModal,
                                stats, dashLoading>>
                [] timers[i].owner = "dashboard" ->
                    /\ stats' = result
                    /\ dashLoading' = FALSE
                    /\ UNCHANGED <<todayStats, loading, showAddFoodModal>>
                [] timers[i].owner = "mount" ->
                    /\ todayStats' = PageStats(result)
                    /\ loading' = FALSE
                    /\ UNCHANGED <<showAddFoodModal, stats, dashLoading>>
                [] timers[i].owner = "add" ->
                    /\ todayStats' = PageStats(result)
                    /\ showAddFoodModal' = FALSE
                    /\ UNCHANGED <<loading, stats, dashLoading>>
    /\ timers' = Remove(timers, i)
    /\ UNCHANGED <<foods, exercisesStore, today, now, apiCalls, adds,
                   mounted, dailyLog, foodItems, selectedMealType, lastAdd, entered,
                   dashMounted, dashLog, clicks, lastClick,
                   authVars,
                   exVars, routeVars>>

\* addMeal(meal), awaited by handleAddFood's new-meal branch, which then
\* sets dailyLog from the dailyLog of the render it was called in and calls
\* calculateTodayStats()
LandAddMeal(i) ==
    /\ Landable(i, "meal")
    /\ \E id \in {now, now + 1} :
         LET r == GetTodayLog(logs, today, exercisesStore)
             newMeal == WithId(timers[i].arg, id)
             captured == timers[i].closure
         IN  /\ now' = id
             /\ logs' = AddMealWrite(r.logs, r.log, newMeal)
             /\ last' = Landing(i, r, newMeal)
             /\ base' = BaseAfterGet(r)
             /\ landed' = [LandedAfterGet(r) EXCEPT
                              ![today].meals = Append(@, newMeal),
                              ![today].count = @ + 1]
             /\ IF timers[i].owner = "add"
                THEN dailyLog' = [captured EXCEPT !.meals = Append(@, newMeal)]
                ELSE UNCHANGED dailyLog
    /\ timers' = IF timers[i].owner = "add"
                 THEN Append(Remove(timers, i),
                             Timer("stats", "inner", GetDelay, 0, "add", Null))
                 ELSE Remove(timers, i)
    /\ UNCHANGED <<foods, exercisesStore, today, apiCalls, adds, mounted,
                   loading, foodItems, todayStats, showAddFoodModal,
                   selectedMealType, lastAdd, entered, dashVars, authVars,
                   exVars, routeVars>>

\* updateWaterIntake(amount); the WaterTracker handlers await it and then
\* call onUpdate(newAmount), Dashboard.handleWaterUpdate:
\* setStats(prev => ({ ...prev, waterIntake: newAmount }))
LandUpdateWaterIntake(i) ==
    /\ Landable(i, "water")
    /\ LET r == GetTodayLog(logs, today, exercisesStore)
       IN  /\ logs' = WaterWrite(r.logs, r.log, timers[i].arg)
           /\ last' = Landing(i, r, timers[i].arg)
           /\ base' = BaseAfterGet(r)
           /\ landed' = [LandedAfterGet(r) EXCEPT
                            ![today].water = << timers[i].arg >>,
                            ![today].count = @ + 1]
    /\ stats' = IF timers[i].owner = "tracker"
                THEN [stats EXCEPT !.waterIntake = timers[i].arg]
                ELSE stats
    /\ timers' = Remove(timers, i)
    /\ UNCHANGED <<foods, exercisesStore, today, now, apiCalls, adds, pageVars, lastAdd, entered,
                   dashMounted, dashLoading, dashLog, clicks, lastClick,
                   authVars,
                   exVars, routeVars>>

\* toggleExerciseCompletion(exerciseId); ExerciseItem.handleToggle awaits it
\* and then calls onToggleComplete({ ...exercise, completed: !exercise.completed })
\* with the exercise prop of the render it was clicked in, which is
\* Exercises.handleToggleComplete:
\* setExercises(prev => prev.map(ex => ex.id === updatedExercise.id ? updatedExercise : ex))
LandToggleExerciseCompletion(i) ==
    /\ Landable(i, "toggle")
    /\ LET r == GetTodayLog(logs, today, exercisesStore)
           id == timers[i].arg
       IN  /\ logs' = ToggleWrite(r.logs, r.log, id)
           /\ last' = Landing(i, r, ToggleExercises(r.log.exercises, id))
           /\ base' = BaseAfterGet(r)
           /\ landed' = [LandedAfterGet(r) EXCEPT
                            ![today].flipped =
                                IF id \in @ THEN @ \ {id} ELSE @ \cup {id},
                            ![today].count = @ + 1]
    /\ exercises' =
          IF timers[i].owner = "item"
          THEN LET updatedExercise ==
                      [timers[i].closure EXCEPT !.completed = ~ @]
               IN  [k \in 1..Len(exercises) |->
                      IF exercises[k].id = updatedExercise.id
                      THEN updatedExercise ELSE exercises[k]]
          ELSE exercises
    /\ timers' = Remove(timers, i)
    /\ UNCHANGED <<foods, exercisesStore, today, now, apiCalls, adds, pageVars, lastAdd, entered, dashVars, authVars,
                   exMounted, exLoading, toggleClicks, routeVars>>

-----------------------------------------------------------------------------
(* The Nutrition page.                                                     *)

\* useEffect on mount: fetchData starts getTodayLog() and getFoodItems()
MountNutrition ==
    /\ ~ mounted
    /\ mounted' = TRUE
    /\ timers' = Append(timers,
                        Timer("mount", "inner", GetDelay, 0, "mount", Null))
    /\ UNCHANGED <<storeVars, today, now, apiCalls, adds, loading, dailyLog,
                   foodItems, todayStats, showAddFoodModal, selectedMealType,
                   last, base, landed, lastAdd, entered, dashVars, authVars,
                   exVars, routeVars>>

\* Promise.all([getTodayLog(), getFoodItems()]) resolves: the two timers were
\* set in one task with one delay, so they run back to back; then setDailyLog,
\* setFoodItems and the call of calculateTodayStats()
LandFetchData(i) ==
    /\ Landable(i, "mount")
    /\ LET r == GetTodayLog(logs, today, exercisesStore)
       IN  /\ logs' = r.logs
           /\ last' = Landing(i, r, r.log)
           /\ base' = BaseAfterGet(r)
           /\ landed' = LandedAfterGet(r)
           /\ dailyLog' = r.log
    /\ foodItems' = foods
    /\ timers' = Append(Remove(timers, i),
                        Timer("stats", "inner", GetDelay, 0, "mount", Null))
    /\ UNCHANGED <<foods, exercisesStore, today, now, apiCalls, adds, mounted,
                   loading, todayStats, showAddFoodModal, selectedMealType,
                   lastAdd, entered, dashVars, authVars,
                   exVars, routeVars>>

\* handleOpenAddFood(mealType): the "add food" button of a meal section
HandleOpenAddFood(mealType) ==
    /\ ~ loading
    /\ ~ showAddFoodModal
    /\ adds < MaxAdds
    /\ selectedMealType' = mealType
    /\ showAddFoodModal' = TRUE
    /\ UNCHANGED <<storeVars, today, now, timers, apiCalls, adds, mounted,
                   loading, dailyLog, foodItems, todayStats, last, base, landed, lastAdd, entered, dashVars, authVars,
                   exVars, routeVars>>

\* the food of the list the user picks: Grilled Chicken Breast
PickableFoods == {foodItems[k] : k \in {2} \cap DOMAIN foodItems}

\* the meal sections whose "add food" button the user presses
OpenedMealTypes == {MealTypes[1], MealTypes[4]}

\* AddFoodModal.handleAddFood with a food selected and `typed` in the quantity
\* field, which calls Nutrition.handleAddFood(food, quantity, mealType)
HandleAddFood(food, typed) ==
    /\ showAddFoodModal
    /\ adds < MaxAdds
    /\ dailyLog # Null
    /\ adds' = adds + 1
    /\ LET quantity == NumberOf(typed)
           mealType == selectedMealType
           m == FindMeal(dailyLog.meals, mealType)
       IN  IF m # 0
           THEN LET existingMeal == dailyLog.meals[m]
                    updatedMeal == UpdatedMeal(existingMeal, food, quantity)
                IN  /\ dailyLog' = [dailyLog EXCEPT
                          !.meals = ReplaceMeal(@, existingMeal, updatedMeal)]
                    /\ timers' = Append(timers,
                          Timer("stats", "inner", GetDelay, 0, "add", Null))
           ELSE /\ timers' = Append(timers,
                          Timer("meal", "outer", AddMealDelay,
                                NewMeal(food, quantity, mealType), "add",
                                dailyLog))
                /\ UNCHANGED dailyLog
    /\ lastAdd' = [branch |-> IF FindMeal(dailyLog.meals, selectedMealType) # 0
                                THEN "existing" ELSE "new",
                    food |-> food, quantity |-> NumberOf(typed),
                    mealType |-> selectedMealType, day |-> today]
    /\ entered' = Append(entered, [day |-> today, mealType |-> selectedMealType,
                                   item |-> food, quantity |-> NumberOf(typed)])
    /\ UNCHANGED <<storeVars, today, now, apiCalls, mounted, loading, foodItems,
                   todayStats, showAddFoodModal, selectedMealType,
                   last, base, landed, dashVars, authVars,
                   exVars, routeVars>>

-----------------------------------------------------------------------------
(* The Dashboard page and its WaterTracker (pages/Dashboard,               *)
(* components/WaterTracker).                                               *)

MaxClicks == 3         \* clicks on the WaterTracker buttons

\* useState initial value of Dashboard's stats
InitialStats ==
    [caloriesConsumed |-> 0, proteinConsumed |-> 0, carbsConsumed |-> 0,
     fatConsumed |-> 0, waterIntake |-> 0, completedExercises |-> 0]

\* incs, decs: the increment and decrement clicks that passed their guard
NoClick == [kind |-> "none", currentWater |-> 0, sent |-> FALSE, pending |-> 0,
            incs |-> 0, decs |-> 0]

\* useEffect on mount: fetchData calls getTodayLog()
MountDashboard ==
    /\ ~ dashMounted
    /\ dashMounted' = TRUE
    /\ timers' = Append(timers,
                        Timer("dashboard", "inner", GetDelay, 0, "dashboard", Null))
    /\ UNCHANGED <<storeVars, today, now, apiCalls, adds, pageVars,
                   last, base, landed, lastAdd, entered,
                   dashLoading, dashLog, stats, clicks, lastClick,
                   authVars,
                   exVars, routeVars>>

\* fetchData after `await getTodayLog()`: setDailyLog(log), then the call of
\* calculateTodayStats()
LandDashboardFetch(i) ==
    /\ Landable(i, "dashboard")
    /\ LET r == GetTodayLog(logs, today, exercisesStore)
       IN  /\ logs' = r.logs
           /\ last' = Landing(i, r, r.log)
           /\ base' = BaseAfterGet(r)
           /\ landed' = LandedAfterGet(r)
           /\ dashLog' = r.log
    /\ timers' = Append(Remove(timers, i),
                        Timer("stats", "inner", GetDelay, 0, "dashboard", Null))
    /\ UNCHANGED <<foods, exercisesStore, today, now, apiCalls, adds, pageVars,
                   lastAdd, entered, dashMounted, dashLoading, stats, clicks,
                   lastClick,
                   authVars,
                   exVars, routeVars>>

\* the WaterTracker calls of updateWaterIntake that have not resolved
PendingClicks ==
    Cardinality({i \in 1..Len(timers) : timers[i].owner = "tracker"})

\* A click on a WaterTracker button, rendered once loading is false;
\* currentWater is stats.waterIntake of the render the handler belongs to
Click(kind, newAmount, allowed) ==
    /\ ~ dashLoading
    /\ clicks < MaxClicks
    /\ clicks' = clicks + 1
    /\ lastClick' = [kind |-> kind, currentWater |-> stats.waterIntake,
                     sent |-> allowed, pending |-> PendingClicks,
                     incs |-> lastClick.incs
                              + (IF allowed /\ kind = "inc" THEN 1 ELSE 0),
                     decs |-> lastClick.decs
                              + (IF allowed /\ kind = "dec" THEN 1 ELSE 0)]
    /\ timers' = IF allowed
                 THEN Append(timers, Timer("water", "outer", MutationDelay,
                                           newAmount, "tracker", Null))
                 ELSE timers
    /\ UNCHANGED <<storeVars, today, now, apiCalls, adds, pageVars,
                   last, base, landed, lastAdd, entered,
                   dashMounted, dashLoading, dashLog, stats,
                   authVars,
                   exVars, routeVars>>

\* Variant of HandleIncrement: the limit of 12 glasses is not tested
HandleIncrement_NoLimit ==
    Click("inc", stats.waterIntake + 1, TRUE)

\* WaterTracker.handleIncrement
HandleIncrement ==
    Click("inc", stats.waterIntake + 1, stats.waterIntake < 12)

\* WaterTracker.handleDecrement; the button is disabled while currentWater
\* is 0
HandleDecrement ==
    /\ stats.waterIntake # 0
    /\ Click("dec", stats.waterIntake - 1, stats.waterIntake > 0)

-----------------------------------------------------------------------------
(* The Exercises page and its ExerciseItems (pages/Exercises,              *)
(* components/ExerciseItem).                                               *)

MaxToggleClicks == 3   \* clicks on an ExerciseItem toggle

\* useEffect on mount: fetchExercises calls getTodayLog()
MountExercises ==
    /\ ~ exMounted
    /\ exMounted' = TRUE
    /\ timers' = Append(timers,
                        Timer("exercises", "inner", GetDelay, 0, "exercises", Null))
    /\ UNCHANGED <<storeVars, today, now, apiCalls, adds, pageVars,
                   last, base, landed, lastAdd, entered, dashVars, authVars,
                   exLoading, exercises, toggleClicks, routeVars>>

\* fetchExercises after `await getTodayLog()`: setExercises(todayLog.exercises),
\* then setLoading(false) in the finally block
LandExercisesFetch(i) ==
    /\ Landable(i, "exercises")
    /\ LET r == GetTodayLog(logs, today, exercisesStore)
       IN  /\ logs' = r.logs
           /\ last' = Landing(i, r, r.log)
           /\ base' = BaseAfterGet(r)
           /\ landed' = LandedAfterGet(r)
           /\ exercises' = r.log.exercises
    /\ exLoading' = FALSE
    /\ timers' = Remove(timers, i)
    /\ UNCHANGED <<foods, exercisesStore, today, now, apiCalls, adds, pageVars,
                   lastAdd, entered, dashVars, authVars,
                   exMounted, toggleClicks, routeVars>>

\* the positions in the list of the items the user clicks
ClickedItems == {k \in 1..Len(exercises) : exercises[k].id \in 1..NumToggled}

\* ExerciseItem.handleToggle of the item at position k, rendered once
\* loading is false: calls toggleExerciseCompletion(exercise.id)
HandleToggle(k) ==
    /\ ~ exLoading
    /\ k \in 1..Len(exercises)
    /\ toggleClicks < MaxToggleClicks
    /\ toggleClicks' = toggleClicks + 1
    /\ timers' = Append(timers, Timer("toggle", "outer", MutationDelay,
                                      exercises[k].id, "item", exercises[k]))
    /\ UNCHANGED <<storeVars, today, now, apiCalls, adds, pageVars,
                   last, base, landed, lastAdd, entered, dashVars, authVars,
                   exMounted, exLoading, exercises, routeVars>>

-----------------------------------------------------------------------------
(* Authentication (utils/authUtils).                                       *)

MaxAuthCalls == 3      \* calls of login, register, logout, updateUserProfile

LoginDelay == 5              \* setTimeout(..., 500) of login
RegisterDelay == 5           \* setTimeout(..., 500) of register
LogoutDelay == 3             \* setTimeout(..., 300) of logout
ProfileDelay == 5            \* setTimeout(..., 500) of updateUserProfile
NumMockUsers == 6            \* MOCK_USERS.length

\* joinedDate of the seeded users, as day ordinals (all before the seed day)
MockJoined == <<-530, -464, -596, -356, -497, -175>>

MockUser(id, name, email, age, weight, height, goal, cal, pro, water) ==
    [id |-> id, name |-> name, email |-> email, age |-> age, weight |-> weight,
     height |-> height, goal |-> goal, dailyCalorieTarget |-> cal,
     dailyProteinTarget |-> pro, dailyWaterTarget |-> water,
     joinedDate |-> MockJoined[id]]

MOCK_USERS ==
    << MockUser(1, "Jordan Lee", "jordan@gmail.com", 28, 75, 175,
                "Lose weight", 2200, 140, 8),
       MockUser(2, "Alicia Gomez", "alicia.gomez@gmail.com", 32, 68, 168,
                "Build muscle", 2500, 160, 10),
       MockUser(3, "Michael Chan", "michael.chan@gmail.com", 40, 82, 180,
                "Maintain weight", 2400, 130, 9),
       MockUser(4, "Emily Nguyen", "emily.nguyen@gmail.com", 25, 60, 165,
                "Improve endurance", 2100, 120, 8),
       MockUser(5, "David Kim", "david.kim@gmail.com", 35, 90, 182,
                "Lose weight", 2000, 150, 10),
       MockUser(6, "Sophia Brown", "sophia.brown@gmail.com", 30, 72, 170,
                "Tone body", 2300, 135, 9) >>

\* String.prototype.toLowerCase on the emails the model uses
ToLowerCase(email) ==
    CASE email = "Jordan@Gmail.com" -> "jordan@gmail.com"
      [] OTHER -> email

\* Inputs: a seeded user's email in another case, and an email no seeded
\* user has
LoginEmails == {"Jordan@Gmail.com", "new@fit.io"}
RegisterEmails == {"Jordan@Gmail.com", "new@fit.io"}
LoginPasswords == {"pw1", "pw2"}
RegisterPasswords == {"pw1"}
RegisterNames == {"Sam Roe"}
\* undefined as the value of an optional numeric field (age, weight, height)
Undefined == -1
OptionalNumbers == {"age", "weight", "height"}

ProfileUpdates == {[name |-> "Jo Lee"]}
\* a partial user whose age is undefined, as ProfileForm submits for a user
\* who has none
FormUpdates == {[name |-> "Jo Lee", age |-> Undefined]}

\* { ...a, ...b } on objects; spreading null adds nothing
Spread(a, b) ==
    IF a = Null THEN b
    ELSE [k \in DOMAIN a \cup DOMAIN b |-> IF k \in DOMAIN b THEN b[k] ELSE a[k]]

\* JSON.stringify(user): the text, represented by the members it holds; a
\* member whose value is undefined is left out
Stringify(user) ==
    [json |-> [k \in {m \in DOMAIN user :
                        ~ (m \in OptionalNumbers /\ user[m] = Undefined)} |->
                 user[k]]]

\* JSON.parse(text)
Parse(text) == text.json

\* Variant of LoadAuthState: the stored session is not read
LoadAuthState_Forgets(stored) == Null

\* loadAuthState(): storedUser = localStorage.getItem('fitmate_user');
\* if (storedUser) authUser = JSON.parse(storedUser), on top of
\* `let authUser = null`
LoadAuthState(stored) ==
    IF stored # Null THEN Parse(stored) ELSE Null

\* authUser?.id: 0 stands for undefined (no user has id 0)
IdOf(a) == IF a # Null /\ "id" \in DOMAIN a THEN a.id ELSE 0

\* users.find(u => u.email.toLowerCase() === email.toLowerCase() &&
\*                 password === password): index, 0 if none
LoginFind(us, email, password) ==
    LET match(u) == /\ ToLowerCase(u.email) = ToLowerCase(email)
                    /\ password = password
    IN  IF \E i \in 1..Len(us) : match(us[i])
        THEN CHOOSE i \in 1..Len(us) :
                match(us[i]) /\ \A j \in 1..(i - 1) : ~ match(us[j])
        ELSE 0

\* Variant of RegisterFind: the emails are compared as typed
RegisterFind_CaseSensitive(us, email) ==
    IF \E i \in 1..Len(us) : us[i].email = email
    THEN CHOOSE i \in 1..Len(us) : us[i].email = email
    ELSE 0

\* users.find(u => u.email.toLowerCase() === email.toLowerCase()): index, 0 if none
RegisterFind(us, email) ==
    IF \E i \in 1..Len(us) : ToLowerCase(us[i].email) = ToLowerCase(email)
    THEN CHOOSE i \in 1..Len(us) :
            /\ ToLowerCase(us[i].email) = ToLowerCase(email)
            /\ \A j \in 1..(i - 1) : ToLowerCase(us[j].email) # ToLowerCase(email)
    ELSE 0

\* { ...user, token: `mock-token-${user.id}-${Date.now()}` }
WithToken(user) == Spread(user, [token |-> <<"mock-token", user.id, now>>])

\* register: the new user with the default targets
NewUser(name, email) ==
    [id |-> Len(users) + 1, name |-> name, email |-> email,
     dailyCalorieTarget |-> 2200, dailyProteinTarget |-> 140,
     dailyWaterTarget |-> 8, joinedDate |-> today]

NoAuthEvent ==
    [op |-> "none", arg |-> Null, outcome |-> "none", message |-> "",
     users |-> <<>>, authUser |-> Null, storedUser |-> Null,
     authAtCall |-> Null, pending |-> {}, overlap |-> "none"]

\* the calls left pending, as (function, lower-case email) pairs
PendingAuth(i) ==
    {<<timers[j].op, IF timers[j].op \in {"login", "register"}
                     THEN ToLowerCase(timers[j].arg.email) ELSE "">> :
        j \in (1..Len(timers)) \ {i}}

\* The settled call: what it was, how it settled, the state it found;
\* overlap is the outcome of the register call settled just before, when
\* this one is a register of the same email that was pending then
AuthEvent(op, arg, outcome, message, authAtCall, pending) ==
    [op |-> op, arg |-> arg, outcome |-> outcome, message |-> message,
     users |-> users, authUser |-> authUser, storedUser |-> storedUser,
     authAtCall |-> authAtCall, pending |-> pending,
     overlap |-> IF /\ op = "register"
                    /\ lastAuth.op = "register"
                    /\ ToLowerCase(lastAuth.arg.email) = ToLowerCase(arg.email)
                    /\ <<"register", ToLowerCase(arg.email)>> \in lastAuth.pending
                 THEN lastAuth.outcome ELSE "none"]

Settled(i, outcome, message) ==
    AuthEvent(timers[i].op, timers[i].arg, outcome, message,
              timers[i].closure, PendingAuth(i))

AuthDue(i, op) ==
    /\ Due(i)
    /\ timers[i].pc = "auth"
    /\ timers[i].op = op

\* A call of login, register or logout: the promise executor sets the timer
IssueAuth(t) ==
    /\ authCalls < MaxAuthCalls
    /\ authCalls' = authCalls + 1
    /\ timers' = Append(timers, t)
    /\ UNCHANGED <<storeVars, today, now, apiCalls, adds, pageVars,
                   last, base, landed, lastAdd, entered, dashVars,
                   users, authUser, storedUser, lastAuth, credentials,
                   exVars, routeVars>>

IssueLogin(email, password) ==
    IssueAuth(Timer("login", "auth", LoginDelay,
                    [email |-> email, password |-> password], "auth", authUser))

IssueRegister(name, email, password) ==
    IssueAuth(Timer("register", "auth", RegisterDelay,
                    [name |-> name, email |-> email, password |-> password],
                    "auth", authUser))

IssueLogout ==
    IssueAuth(Timer("logout", "auth", LogoutDelay, Null, "auth", authUser))

\* the frame of the timer callbacks of authUtils
AuthFrame ==
    UNCHANGED <<storeVars, today, now, apiCalls, adds, pageVars,
                last, base, landed, lastAdd, entered, dashVars, authCalls,
                   exVars, routeVars>>

\* login's timer callback
LandLogin(i) ==
    /\ AuthDue(i, "login")
    /\ LET k == LoginFind(users, timers[i].arg.email, timers[i].arg.password)
       IN  IF k # 0
           THEN /\ storedUser' = Stringify(WithToken(users[k]))
                /\ authUser' = WithToken(users[k])
                /\ lastAuth' = Settled(i, "resolved", "")
           ELSE /\ lastAuth' = Settled(i, "rejected", "Invalid email or password")
                /\ UNCHANGED <<storedUser, authUser>>
    /\ timers' = Remove(timers, i)
    /\ UNCHANGED <<users, credentials>>
    /\ AuthFrame

\* register's timer callback
LandRegister(i) ==
    /\ AuthDue(i, "register")
    /\ LET arg == timers[i].arg
           newUser == NewUser(arg.name, arg.email)
       IN  IF RegisterFind(users, arg.email) # 0
           THEN /\ lastAuth' = Settled(i, "rejected", "Email already in use")
                /\ UNCHANGED <<users, storedUser, authUser, credentials>>
           ELSE /\ users' = Append(users, newUser)
                /\ storedUser' = Stringify(WithToken(newUser))
                /\ authUser' = WithToken(newUser)
                /\ credentials' =
                      [e \in DOMAIN credentials \cup {ToLowerCase(arg.email)} |->
                          IF e = ToLowerCase(arg.email) THEN arg.password
                          ELSE credentials[e]]
                /\ lastAuth' = Settled(i, "resolved", "")
    /\ timers' = Remove(timers, i)
    /\ AuthFrame

\* logout's timer callback
LandLogout(i) ==
    /\ AuthDue(i, "logout")
    /\ storedUser' = Null
    /\ authUser' = Null
    /\ lastAuth' = Settled(i, "resolved", "")
    /\ timers' = Remove(timers, i)
    /\ UNCHANGED <<users, credentials>>
    /\ AuthFrame

\* Variant of UpdateUserProfile: the authUser test is missing
UpdateUserProfile_NoCheck(updatedData) ==
    IssueAuth(Timer("profile", "auth", ProfileDelay, updatedData, "auth", authUser))

\* updateUserProfile(updatedData): rejects at once when authUser is null,
\* sets the timer otherwise
UpdateUserProfile(updatedData) ==
    IF authUser = Null
    THEN /\ authCalls < MaxAuthCalls
         /\ authCalls' = authCalls + 1
         /\ lastAuth' = AuthEvent("profile", updatedData, "rejected",
                                  "No authenticated user", authUser,
                                  PendingAuth(0))
         /\ UNCHANGED <<storeVars, today, now, timers, apiCalls, adds, pageVars,
                        last, base, landed, lastAdd, entered, dashVars,
                        users, authUser, storedUser, credentials,
                   exVars, routeVars>>
    ELSE IssueAuth(Timer("profile", "auth", ProfileDelay, updatedData, "auth",
                         authUser))

\* updateUserProfile's timer callback
LandUpdateUserProfile(i) ==
    /\ AuthDue(i, "profile")
    /\ LET updatedData == timers[i].arg
           updatedAuthUser == Spread(authUser, updatedData)
       IN  /\ users' = [u \in 1..Len(users) |->
                          IF users[u].id = IdOf(authUser)
                          THEN Spread(users[u], updatedData) ELSE users[u]]
           /\ storedUser' = Stringify(updatedAuthUser)
           /\ authUser' = updatedAuthUser
           /\ lastAuth' = Settled(i, "resolved", "")
    /\ timers' = Remove(timers, i)
    /\ UNCHANGED credentials
    /\ AuthFrame

-----------------------------------------------------------------------------
(* Routing (App, components/ProtectedRoute).                               *)

\* The paths the model visits: every route of App and two that match none
Paths == {"/login", "/register", "/dashboard", "/exercises", "/nutrition",
          "/progress", "/profile", "/", "/settings"}

\* What a route element renders to: a page, or <Navigate to=... />
Page(name) == [kind |-> "page", page |-> name, to |-> ""]
NavigateTo(path) == [kind |-> "navigate", page |-> "", to |-> path]

\* getCurrentUser()
GetCurrentUser == authUser

\* Variant of ProtectedRoute: the children are rendered whoever asks
ProtectedRoute_AlwaysChildren(currentUser, children) == Page(children)

\* ProtectedRoute: if (!currentUser) return <Navigate to="/login" replace />;
\* return <>{children}</>
ProtectedRoute(currentUser, children) ==
    IF currentUser = Null THEN NavigateTo("/login") ELSE Page(children)

\* <Routes> of App: the element of the route that matches the path
RouteElement(path, currentUser) ==
    CASE path = "/login"     -> Page("Login")
      [] path = "/register"  -> Page("Register")
      [] path = "/dashboard" -> ProtectedRoute(currentUser, "Dashboard")
      [] path = "/exercises" -> ProtectedRoute(currentUser, "Exercises")
      [] path = "/nutrition" -> ProtectedRoute(currentUser, "Nutrition")
      [] path = "/progress"  -> ProtectedRoute(currentUser, "Progress")
      [] path = "/profile"   -> ProtectedRoute(currentUser, "Profile")
      [] OTHER               -> NavigateTo("/login")

\* The router renders the location; a <Navigate> changes the location and
\* the new location is rendered in turn
Render(path, currentUser) ==
    LET element == RouteElement(path, currentUser)
        target == IF element.kind = "navigate" THEN element.to ELSE path
        final == RouteElement(target, currentUser)
    IN  /\ location' = target
        /\ rendered' = final.page
        /\ userAtRender' = currentUser

\* The location becomes path (a link, navigate(path), or the address bar)
Visit(path) ==
    /\ Render(path, GetCurrentUser)
    /\ UNCHANGED <<storeVars, today, now, timers, apiCalls, adds, pageVars,
                   last, base, landed, lastAdd, entered, dashVars, authVars,
                   exVars, reloads>>

-----------------------------------------------------------------------------
(* Module initialisation (utils/dataUtils, utils/authUtils) and the page   *)
(* reload that runs it again.                                              *)

MaxReloads == 1        \* page reloads

\* Variant of InitializeData: the mock value is written whatever is stored
InitializeData_AlwaysWrites(stored, mock) == mock

\* initializeData() for one key: if (!localStorage.getItem(KEY))
\* localStorage.setItem(KEY, JSON.stringify(MOCK)); the value under the key
\* afterwards
InitializeData(stored, mock) ==
    IF stored = Null THEN mock ELSE stored

\* The page is reloaded: pending timers and component state are gone,
\* localStorage stays; the modules are evaluated again (initializeData(),
\* `users = [...MOCK_USERS]`, loadAuthState()) and the router renders the
\* location
Reload ==
    /\ reloads < MaxReloads
    /\ reloads' = reloads + 1
    /\ timers' = <<>>
    /\ logs' = InitializeData(logs, MOCK_ALL_LOGS)
    /\ foods' = InitializeData(foods, MOCK_FOOD_ITEMS)
    /\ exercisesStore' = InitializeData(exercisesStore, MOCK_EXERCISES)
    /\ users' = MOCK_USERS
    /\ authUser' = LoadAuthState(storedUser)
    /\ Render(location, LoadAuthState(storedUser))
    /\ mounted' = FALSE
    /\ loading' = TRUE
    /\ dailyLog' = Null
    /\ foodItems' = <<>>
    /\ todayStats' = [caloriesConsumed |-> 0, proteinConsumed |-> 0,
                      carbsConsumed |-> 0, fatConsumed |-> 0]
    /\ showAddFoodModal' = FALSE
    /\ selectedMealType' = "breakfast"
    /\ dashMounted' = FALSE
    /\ dashLoading' = TRUE
    /\ dashLog' = Null
    /\ stats' = InitialStats
    /\ exMounted' = FALSE
    /\ exLoading' = TRUE
    /\ exercises' = <<>>
    /\ last' = [NoLanding EXCEPT !.op = "reload", !.day = today, !.before = logs]
    /\ UNCHANGED <<storedUser, today, now, apiCalls, adds, clicks, toggleClicks,
                   authCalls, base, landed, lastAdd, entered, lastClick,
                   lastAuth, credentials>>

-----------------------------------------------------------------------------
(* The specification.                                                      *)

NoStats == [caloriesConsumed |-> 0, proteinConsumed |-> 0,
            carbsConsumed |-> 0, fatConsumed |-> 0]

\* Everything but the logs: the other keys as initializeData() writes them,
\* no page mounted, no call made
InitOther ==
    /\ foods = InitializeData(Null, MOCK_FOOD_ITEMS)
    /\ exercisesStore = InitializeData(Null, MOCK_EXERCISES)
    /\ today = SeedDay
    /\ now = NowStart
    /\ timers = <<>>
    /\ apiCalls = 0
    /\ adds = 0
    /\ mounted = FALSE
    /\ loading = TRUE
    /\ dailyLog = Null
    /\ foodItems = <<>>
    /\ todayStats = NoStats
    /\ showAddFoodModal = FALSE
    /\ selectedMealType = "breakfast"
    /\ last = NoLanding
    /\ base = [d \in {logs[k].date : k \in 1..Len(logs)} |-> logs[FindLog(logs, d)]]
    /\ landed = [d \in {logs[k].date : k \in 1..Len(logs)} |-> NoEffects]
    /\ lastAdd = NoAdd
    /\ entered = <<>>
    /\ dashMounted = FALSE
    /\ dashLoading = TRUE
    /\ dashLog = Null
    /\ stats = InitialStats
    /\ clicks = 0
    /\ lastClick = NoClick
    /\ users = MOCK_USERS
    /\ storedUser = Null
    /\ authUser = LoadAuthState(storedUser)
    /\ authCalls = 0
    /\ lastAuth = NoAuthEvent
    /\ credentials = [e \in {} |-> ""]
    /\ exMounted = FALSE
    /\ exLoading = TRUE
    /\ exercises = <<>>
    /\ toggleClicks = 0
    /\ location = "/"
    /\ rendered = "none"
    /\ userAtRender = Null
    /\ reloads = 0

\* initializeData() on an empty store
Init ==
    /\ logs = InitializeData(Null, MOCK_ALL_LOGS)
    /\ InitOther

\* The glasses today's log holds when the Dashboard is opened: none, the
\* seed's five, or eleven after earlier use of the tracker
StartWaters == {0, SeedWater, 11}

\* A store that initializeData() seeded and the tracker has been used on
InitWater ==
    /\ \E w \in StartWaters :
          logs = [MOCK_ALL_LOGS EXCEPT ![1].waterIntake = w]
    /\ InitOther

\* The ledger driven through its exported functions
Next ==
    \/ Tick
    \/ DayRollover
    \/ IssueGetTodayLog
    \/ IssueCalculateTodayStats
    \/ \E food \in MealFoods, quantity \in MealQuantities :
          IssueAddMeal(NewMeal(food, quantity, "snack"))
    \/ \E amount \in WaterAmounts : IssueUpdateWaterIntake(amount)
    \/ \E exerciseId \in ToggleIds : IssueToggleExerciseCompletion(exerciseId)
    \/ \E i \in 1..Len(timers) : FireOuter(i)
    \/ \E i \in 1..Len(timers) : LandGetTodayLog(i)
    \/ \E i \in 1..Len(timers) : LandCalculateTodayStats(i)
    \/ \E i \in 1..Len(timers) : LandAddMeal(i)
    \/ \E i \in 1..Len(timers) : LandUpdateWaterIntake(i)
    \/ \E i \in 1..Len(timers) : LandToggleExerciseCompletion(i)

Spec == Init /\ [][Next]_vars

\* The ledger while the value under 'fitmate_exercises' changes
NextCatalog ==
    \/ Tick
    \/ DayRollover
    \/ \E catalog \in CatalogChoices : SetExerciseCatalog(catalog)
    \/ IssueGetTodayLog
    \/ \E exerciseId \in ToggleIds : IssueToggleExerciseCompletion(exerciseId)
    \/ \E i \in 1..Len(timers) : FireOuter(i)
    \/ \E i \in 1..Len(timers) : LandGetTodayLog(i)
    \/ \E i \in 1..Len(timers) : LandToggleExerciseCompletion(i)

SpecCatalog == Init /\ [][NextCatalog]_vars

\* The ledger driven through the Nutrition page
NextNutrition ==
    \/ Tick
    \/ DayRollover
    \/ MountNutrition
    \/ \E i \in 1..Len(timers) : LandFetchData(i)
    \/ \E mealType \in OpenedMealTypes : HandleOpenAddFood(mealType)
    \/ \E food \in PickableFoods, typed \in TypedQuantities :
          HandleAddFood(food, typed)
    \/ \E i \in 1..Len(timers) : FireOuter(i)
    \/ \E i \in 1..Len(timers) : LandAddMeal(i)
    \/ \E i \in 1..Len(timers) : LandCalculateTodayStats(i)

SpecNutrition == Init /\ [][NextNutrition]_vars

\* The ledger driven through the Dashboard's WaterTracker
NextWater ==
    \/ Tick
    \/ DayRollover
    \/ MountDashboard
    \/ \E i \in 1..Len(timers) : LandDashboardFetch(i)
    \/ \E i \in 1..Len(timers) : LandCalculateTodayStats(i)
    \/ HandleIncrement
    \/ HandleDecrement
    \/ \E i \in 1..Len(timers) : FireOuter(i)
    \/ \E i \in 1..Len(timers) : LandUpdateWaterIntake(i)

SpecWater == InitWater /\ [][NextWater]_vars

\* The authentication module driven through its exported functions
NextAuth ==
    \/ Tick
    \/ \E email \in LoginEmails, password \in LoginPasswords :
          IssueLogin(email, password)
    \/ \E name \in RegisterNames, email \in RegisterEmails,
          password \in RegisterPasswords :
          IssueRegister(name, email, password)
    \/ IssueLogout
    \/ \E updatedData \in ProfileUpdates : UpdateUserProfile(updatedData)
    \/ \E i \in 1..Len(timers) : LandLogin(i)
    \/ \E i \in 1..Len(timers) : LandRegister(i)
    \/ \E i \in 1..Len(timers) : LandLogout(i)
    \/ \E i \in 1..Len(timers) : LandUpdateUserProfile(i)

SpecAuth == Init /\ [][NextAuth]_vars

\* One user signing in and out while moving between pages
NextRoutes ==
    \/ Tick
    \/ IssueLogin("Jordan@Gmail.com", "pw1")
    \/ IssueLogout
    \/ \E i \in 1..Len(timers) : LandLogin(i)
    \/ \E i \in 1..Len(timers) : LandLogout(i)
    \/ \E path \in Paths : Visit(path)

SpecRoutes == Init /\ [][NextRoutes]_vars

\* The authUtils functions across page reloads
NextSession ==
    \/ Tick
    \/ IssueLogin("Jordan@Gmail.com", "pw1")
    \/ \E name \in RegisterNames, email \in RegisterEmails,
          password \in RegisterPasswords :
          IssueRegister(name, email, password)
    \/ IssueLogout
    \/ \E updatedData \in FormUpdates : UpdateUserProfile(updatedData)
    \/ \E i \in 1..Len(timers) : LandLogin(i)
    \/ \E i \in 1..Len(timers) : LandRegister(i)
    \/ \E i \in 1..Len(timers) : LandLogout(i)
    \/ \E i \in 1..Len(timers) : LandUpdateUserProfile(i)
    \/ Reload

SpecSession == Init /\ [][NextSession]_vars

\* The ledger's mutations across page reloads
NextReload ==
    \/ Tick
    \/ \E food \in MealFoods, quantity \in MealQuantities :
          IssueAddMeal(NewMeal(food, quantity, "snack"))
    \/ \E amount \in WaterAmounts : IssueUpdateWaterIntake(amount)
    \/ \E exerciseId \in 1..NumToggled : IssueToggleExerciseCompletion(exerciseId)
    \/ \E i \in 1..Len(timers) : FireOuter(i)
    \/ \E i \in 1..Len(timers) : LandAddMeal(i)
    \/ \E i \in 1..Len(timers) : LandUpdateWaterIntake(i)
    \/ \E i \in 1..Len(timers) : LandToggleExerciseCompletion(i)
    \/ Reload

SpecReload == Init /\ [][NextReload]_vars

\* The ledger driven through the Exercises page
NextExercises ==
    \/ Tick
    \/ MountExercises
    \/ \E i \in 1..Len(timers) : LandExercisesFetch(i)
    \/ \E k \in ClickedItems : HandleToggle(k)
    \/ \E i \in 1..Len(timers) : FireOuter(i)
    \/ \E i \in 1..Len(timers) : LandToggleExerciseCompletion(i)

SpecExercises == Init /\ [][NextExercises]_vars


-----------------------------------------------------------------------------
(* Properties.                                                             *)

\* the persisted log of a date; the date has one
LogOf(ls, date) == ls[FindLog(ls, date)]

HasLog(ls, date) == FindLog(ls, date) # 0

ExerciseIds(exs) == {exs[i].id : i \in 1..Len(exs)}

\* sum over the entries of quantity times the food's per-serving value
RECURSIVE EntrySum(_, _)
EntrySum(items, field) ==
    IF items = <<>> THEN 0
    ELSE (items[1].quantity * items[1].item[field]) \div Scale
         + EntrySum(Tail(items), field)

TotalsMatch(meal) ==
    /\ meal.totalCalories = EntrySum(meal.items, "calories")
    /\ meal.totalProtein  = EntrySum(meal.items, "protein")
    /\ meal.totalCarbs    = EntrySum(meal.items, "carbs")
    /\ meal.totalFat      = EntrySum(meal.items, "fat")

AllTotalsMatch(meals) == \A m \in 1..Len(meals) : TotalsMatch(meals[m])

\* C1: every Meal of every persisted DailyLog, and every Meal of the
\* Nutrition page's dailyLog state, has its four cached totals equal to the
\* sum over its entries of quantity times per-serving value.
C1_TotalsMatchEntries ==
    /\ \A k \in 1..Len(logs) : AllTotalsMatch(logs[k].meals)
    /\ dailyLog # Null => AllTotalsMatch(dailyLog.meals)

\* C1 witness: on a day whose log started empty, addMeal has stored a meal
\* and handleAddFood has appended a second entry to the page's copy of it.
C1_Witness ==
    /\ today > SeedDay
    /\ HasLog(logs, today)
    /\ LogOf(logs, today).meals # <<>>
    /\ dailyLog # Null
    /\ dailyLog.date = today
    /\ \E m \in 1..Len(dailyLog.meals) : Len(dailyLog.meals[m].items) >= 2

\* C2: the persisted list holds at most one DailyLog per date.
C2_OneLogPerDate ==
    \A i, j \in 1..Len(logs) : logs[i].date = logs[j].date => i = j

\* C2 witness: getTodayLog ran on a day whose log was created lazily, having
\* been called while another getTodayLog call was pending, and found the log.
C2_Witness ==
    /\ today > SeedDay
    /\ last.op = "get"
    /\ last.day = today
    /\ last.overlap = "get"
    /\ ~ last.created
    /\ HasLog(logs, today)

\* C3 (as claimed): after handleAddFood added an entry to a Meal that already
\* existed, the persisted log of that day holds a Meal of that type with the
\* added (food, quantity) entry.
C3_ExistingMealUpdatePersisted ==
    (lastAdd.branch = "existing" /\ lastAdd.day = today /\ HasLog(logs, today))
    => \E m \in 1..Len(LogOf(logs, today).meals) :
          LET meal == LogOf(logs, today).meals[m]
          IN  /\ meal.type = lastAdd.mealType
              /\ \E k \in 1..Len(meal.items) :
                    meal.items[k] = [item |-> lastAdd.food,
                                     quantity |-> lastAdd.quantity]

\* the log a day's history amounts to: the log the day started with, the
\* landed meals appended, the last landed water amount, the exercises with an
\* odd number of landed toggles flipped
Expected(d) ==
    [base[d] EXCEPT
        !.meals = @ \o landed[d].meals,
        !.waterIntake = IF landed[d].water = <<>> THEN @ ELSE landed[d].water[1],
        !.exercises = [i \in 1..Len(@) |->
                          [id |-> @[i].id,
                           completed |-> (@[i].completed # (@[i].id \in landed[d].flipped))]]]

\* C4 (amended): no update is lost; in every state the persisted log of
\* every date carries the effect of every mutation that has landed on it,
\* also when the mutations were in flight together.
C4_NoLostUpdate ==
    /\ DOMAIN base = {logs[k].date : k \in 1..Len(logs)}
    /\ \A d \in DOMAIN base : LogOf(logs, d) = Expected(d)

\* two mutations of today's log were in flight together and both have landed
C4_BothLanded ==
    /\ last.op \in Mutations
    /\ last.day = today
    /\ last.overlap \in Mutations
    /\ InFlight \cap Mutations = {}
    /\ landed[today].count >= 2

\* C4 witness: that state, the two being an updateWaterIntake and a
\* toggleExerciseCompletion of an exercise of the snapshot
C4_Witness ==
    /\ C4_BothLanded
    /\ landed[today].count = 2
    /\ landed[today].water # <<>>
    /\ landed[today].flipped \cap ExerciseIds(base[today].exercises) # {}

\* C4 (as claimed): when two mutations that were in flight together have
\* both resolved, the persisted log lacks the effect of one of them.
C4_ConcurrentMutationsDropAnUpdate ==
    C4_BothLanded => LogOf(logs, today) # Expected(today)

\* C5 (as claimed): calculateTodayStats leaves the persisted store as it was.
C5_StatsLeavesStoreUnchanged ==
    last.op = "stats" => logs = last.before

\* C5 (amended): calculateTodayStats leaves the foods and the catalog as they
\* were; it leaves the logs as they were when a log for today exists, and
\* otherwise appends exactly one log: today's date, no meals, water 0, the
\* catalog as exercises.
C5_StatsOnlyCreatesTodayLog ==
    last.op = "stats" =>
        /\ foods = MOCK_FOOD_ITEMS
        /\ exercisesStore = last.catalog
        /\ IF \E k \in 1..Len(last.before) : last.before[k].date = last.day
           THEN logs = last.before
           ELSE logs = last.before \o
                    << [date |-> last.day, meals |-> <<>>,
                        exercises |-> last.catalog, waterIntake |-> 0] >>

\* C5 witness: calculateTodayStats ran on a day that had no log
C5_Witness ==
    /\ last.op = "stats"
    /\ last.created

\* C6 (as claimed): no MealEntry with quantity <= 0 is stored in a Meal,
\* in the persisted logs or in the page's dailyLog.
C6_QuantityPositive ==
    /\ \A k \in 1..Len(logs) : \A m \in 1..Len(logs[k].meals) :
          \A e \in 1..Len(logs[k].meals[m].items) :
             logs[k].meals[m].items[e].quantity > 0
    /\ dailyLog # Null =>
          \A m \in 1..Len(dailyLog.meals) :
             \A e \in 1..Len(dailyLog.meals[m].items) :
                dailyLog.meals[m].items[e].quantity > 0

\* C7: when toggleExerciseCompletion(id) lands right after a landed
\* toggleExerciseCompletion(id) of the same day, for an id of today's
\* snapshot, the persisted logs are what they were before the first.
C7_DoubleToggleIsIdentity ==
    [][\A i \in 1..Len(timers) :
          ( /\ LandToggleExerciseCompletion(i)
            /\ last.op = "toggle"
            /\ last.arg = timers[i].arg
            /\ last.day = today
            /\ ~ last.created
            /\ last.arg \in ExerciseIds(LogOf(logs, today).exercises) )
          => logs' = last.before]_vars

\* C7 witness: the second of two toggles of exercise 1 has landed: the first
\* had set the flag, no toggle is left unpaired
C7_Witness ==
    /\ last.op = "toggle"
    /\ last.arg = 1
    /\ last.day = today
    /\ ~ last.created
    /\ HasLog(last.before, today)
    /\ LogOf(last.before, today).exercises[1].completed
    /\ ~ LogOf(logs, today).exercises[1].completed
    /\ landed[today].flipped = {}

\* the exercise list of the day's log as getTodayLog finds or creates it
ExercisesFound(ls, date, catalog) ==
    IF HasLog(ls, date) THEN LogOf(ls, date).exercises ELSE catalog

\* C8: toggleExerciseCompletion(id) with an id that today's snapshot does not
\* contain resolves with the exercise list as it was, and leaves the
\* exercises of every persisted log as they were.
C8_UnknownIdIsNoOp ==
    ( /\ last.op = "toggle"
      /\ last.arg \notin ExerciseIds(ExercisesFound(last.before, last.day, last.catalog)) )
    => /\ last.result = ExercisesFound(last.before, last.day, last.catalog)
       /\ \A k \in 1..Len(last.before) :
             logs[k].exercises = last.before[k].exercises
       /\ LogOf(logs, last.day).exercises
             = ExercisesFound(last.before, last.day, last.catalog)

\* C8 witness: such a toggle has landed
C8_Witness ==
    /\ last.op = "toggle"
    /\ last.arg = UnknownId
    /\ last.arg \notin ExerciseIds(ExercisesFound(last.before, last.day, last.catalog))

\* C9: addMeal, updateWaterIntake and toggleExerciseCompletion leave the
\* foods, the catalog and every log of another date as they were; the list
\* grows by at most the log of today.
C9_OnlyTodayLogChanges ==
    last.op \in Mutations =>
        /\ foods = MOCK_FOOD_ITEMS
        /\ exercisesStore = last.catalog
        /\ Len(logs) >= Len(last.before)
        /\ \A k \in 1..Len(last.before) :
              last.before[k].date # last.day => logs[k] = last.before[k]
        /\ \A k \in (Len(last.before) + 1)..Len(logs) :
              /\ k = Len(last.before) + 1
              /\ logs[k].date = last.day

\* C9 witness: a mutation changed the stored log of today
C9_Witness ==
    /\ last.op \in Mutations
    /\ ~ last.created
    /\ logs # last.before

\* C10: a log's exercise list keeps the ids it was created with, and each
\* completed flag is the flag at creation, flipped once per landed toggle,
\* whatever the catalog becomes; getTodayLog resolves with that list.
C10_SnapshotIsolation ==
    /\ \A d \in DOMAIN base :
          /\ HasLog(logs, d)
          /\ LogOf(logs, d).exercises = Expected(d).exercises
    /\ last.op = "get" => last.result.exercises = LogOf(logs, last.day).exercises

\* C10 witness: on a day whose log was created lazily, getTodayLog or a toggle
\* ran after the catalog had changed from what the log was created with
C10_Witness ==
    /\ today > SeedDay
    /\ HasLog(logs, today)
    /\ last.day = today
    /\ ~ last.created
    /\ last.op \in {"get", "toggle"}
    /\ last.catalog # base[today].exercises
    /\ ExerciseIds(last.catalog) # ExerciseIds(base[today].exercises)

\* C11: when the persisted list holds no log for today, getTodayLog resolves
\* with a log of today's date, no meals, waterIntake 0 and the stored catalog
\* as exercises, and the persisted list is the previous list with exactly
\* that log appended.
C11_CreatesTodayLog ==
    (last.op = "get" /\ ~ HasLog(last.before, last.day)) =>
        /\ last.result = [date |-> last.day, meals |-> <<>>,
                          exercises |-> last.catalog, waterIntake |-> 0]
        /\ logs = last.before \o << last.result >>

\* C11 witness: getTodayLog created the log of a new day after the catalog
\* had been replaced
C11_Witness ==
    /\ last.op = "get"
    /\ last.created
    /\ last.day > SeedDay
    /\ last.catalog # MOCK_EXERCISES
    /\ Len(logs) = Len(MOCK_ALL_LOGS) + 1

\* C12: calculateTodayStats resolves with completedExercises equal to the
\* number of exercises of today's persisted log whose completed flag is true.
C12_CompletedExercisesCount ==
    last.op = "stats" =>
        last.result.completedExercises =
            Cardinality({e \in 1..Len(LogOf(logs, last.day).exercises) :
                            LogOf(logs, last.day).exercises[e].completed = TRUE})

\* C12 witness: calculateTodayStats ran after a toggle had set a flag
C12_Witness ==
    /\ last.op = "stats"
    /\ landed[last.day].flipped # {}
    /\ last.result.completedExercises >= 1

\* sum of a cached total over the meals of a log
RECURSIVE CachedSum(_, _)
CachedSum(meals, field) ==
    IF meals = <<>> THEN 0 ELSE meals[1][field] + CachedSum(Tail(meals), field)

\* C13: calculateTodayStats resolves with the four consumed values equal to
\* the sums of the cached totals over the meals of today's persisted log (0
\* for no meals) and with waterIntake equal to the log's waterIntake.
C13_StatsSumCachedTotals ==
    last.op = "stats" =>
        LET log == LogOf(logs, last.day)
        IN  /\ last.result.caloriesConsumed = CachedSum(log.meals, "totalCalories")
            /\ last.result.proteinConsumed  = CachedSum(log.meals, "totalProtein")
            /\ last.result.carbsConsumed    = CachedSum(log.meals, "totalCarbs")
            /\ last.result.fatConsumed      = CachedSum(log.meals, "totalFat")
            /\ last.result.waterIntake      = log.waterIntake
            /\ log.meals = <<>> => last.result.caloriesConsumed = 0

\* C13 witness: calculateTodayStats ran on the seed day's log after addMeal
\* had appended a fifth meal
C13_Witness ==
    /\ last.op = "stats"
    /\ last.day = SeedDay
    /\ landed[last.day].meals # <<>>
    /\ Len(LogOf(logs, last.day).meals) = 5
    /\ last.result.caloriesConsumed > 0

\* C14: updateWaterIntake(n) stores n as today's waterIntake and resolves
\* with n, whatever n is; calculateTodayStats running next on that day
\* resolves with waterIntake = n.
C14_WaterStoredAsGiven ==
    [][\A i \in 1..Len(timers) :
          /\ LandUpdateWaterIntake(i) =>
                /\ LogOf(logs', today).waterIntake = timers[i].arg
                /\ last'.result = timers[i].arg
          /\ (LandCalculateTodayStats(i) /\ last.op = "water" /\ last.day = today)
                => last'.result.waterIntake = last.arg]_vars

\* C14 witness: calculateTodayStats resolved with 13 glasses, an amount
\* outside [0, 12] that only updateWaterIntake(13) can have stored
C14_Witness ==
    /\ last.op = "stats"
    /\ last.result.waterIntake = 13
    /\ LogOf(logs, last.day).waterIntake = 13

\* the entries handleAddFood was called with on day d for mealType
EnteredFor(d, mealType) ==
    SelectSeq(entered, LAMBDA e : e.day = d /\ e.mealType = mealType)

\* no handleAddFood invocation is still awaiting addMeal or calculateTodayStats
NoAddInProgress == \A i \in 1..Len(timers) : timers[i].owner # "add"

\* C15 (as claimed): on a day whose log started with no Meal of a type, once
\* the handleAddFood calls made for that type through the page loaded that
\* day have completed, the persisted log of the day holds a Meal of the type
\* whose four totals equal the sum over all entries added of quantity times
\* per-serving value.
C15_TotalsSumAllEntries ==
    \A t \in 1..Len(MealTypes) :
        LET mealType == MealTypes[t]
            es == EnteredFor(today, mealType)
        IN  ( /\ NoAddInProgress
              /\ es # <<>>
              /\ dailyLog # Null
              /\ dailyLog.date = today
              /\ today \in DOMAIN base
              /\ FindMeal(base[today].meals, mealType) = 0 )
            => \E m \in 1..Len(LogOf(logs, today).meals) :
                  LET meal == LogOf(logs, today).meals[m]
                  IN  /\ meal.type = mealType
                      /\ meal.totalCalories = EntrySum(es, "calories")
                      /\ meal.totalProtein  = EntrySum(es, "protein")
                      /\ meal.totalCarbs    = EntrySum(es, "carbs")
                      /\ meal.totalFat      = EntrySum(es, "fat")

\* C16: no step removes a date from the persisted list; a date that has a
\* log has one in every later state.
C16_DatesNeverShrink ==
    [][\A k \in 1..Len(logs) :
          \E j \in 1..Len(logs') : logs'[j].date = logs[k].date]_vars

\* C16 witness: the list has grown by the log of a later day and a mutation
\* has since rewritten it
C16_Witness ==
    /\ Len(logs) = Len(MOCK_ALL_LOGS) + 1
    /\ last.op \in Mutations
    /\ last.day > SeedDay
    /\ ~ last.created
    /\ \A k \in 1..Len(MOCK_ALL_LOGS) : HasLog(logs, MOCK_ALL_LOGS[k].date)

\* C17: driven through the WaterTracker buttons, from a stored value within
\* [0, 12], the waterIntake of today's persisted log (and of every other
\* log) stays within [0, 12], also when clicks are made while earlier ones
\* have not resolved.
C17_TrackerKeepsWaterInRange ==
    /\ \A k \in 1..Len(logs) : logs[k].waterIntake \in 0..12
    /\ \A i \in 1..Len(timers) :
          timers[i].owner = "tracker" => timers[i].arg \in 0..12

\* C17 witness: with twelve glasses stored by two landed updateWaterIntake
\* calls of the tracker, a further click on the increment button was made
\* and sent nothing
C17_Witness ==
    /\ lastClick.kind = "inc"
    /\ lastClick.currentWater = 12
    /\ ~ lastClick.sent
    /\ HasLog(logs, today)
    /\ LogOf(logs, today).waterIntake = 12
    /\ landed[today].count >= 2

\* the settled call left users, authUser and the stored session as they were
AuthUnchanged ==
    /\ users = lastAuth.users
    /\ authUser = lastAuth.authUser
    /\ storedUser = lastAuth.storedUser

\* C18 (as claimed): login with the email of a user registered with a
\* password, and another password, rejects with 'Invalid email or password'
\* and leaves authUser and the stored session as they were.
C18_WrongPasswordRejected ==
    ( /\ lastAuth.op = "login"
      /\ ToLowerCase(lastAuth.arg.email) \in DOMAIN credentials
      /\ lastAuth.arg.password # credentials[ToLowerCase(lastAuth.arg.email)] )
    => /\ lastAuth.outcome = "rejected"
       /\ lastAuth.message = "Invalid email or password"
       /\ authUser = lastAuth.authUser
       /\ storedUser = lastAuth.storedUser

\* the email is, ignoring case, that of a user in us
EmailInUse(us, email) ==
    \E u \in 1..Len(us) : ToLowerCase(us[u].email) = ToLowerCase(email)

\* C19: register with an email that, ignoring case, an existing user has
\* rejects with 'Email already in use' and leaves users, authUser and the
\* stored session as they were; register with an email no user has
\* resolves; of two register calls with one such email in flight together
\* the first to run resolves and the other rejects.
C19_DuplicateEmailRejected ==
    lastAuth.op = "register" =>
        /\ EmailInUse(lastAuth.users, lastAuth.arg.email) =>
              /\ lastAuth.outcome = "rejected"
              /\ lastAuth.message = "Email already in use"
              /\ AuthUnchanged
        /\ ~ EmailInUse(lastAuth.users, lastAuth.arg.email) =>
              /\ lastAuth.outcome = "resolved"
              /\ Len(users) = Len(lastAuth.users) + 1
        /\ lastAuth.overlap = "resolved" => lastAuth.outcome = "rejected"

\* C19 witness: of two register calls with the new email in flight together
\* the first resolved and the second has just rejected
C19_Witness ==
    /\ lastAuth.op = "register"
    /\ lastAuth.arg.email = "new@fit.io"
    /\ lastAuth.overlap = "resolved"
    /\ lastAuth.outcome = "rejected"
    /\ Len(users) = NumMockUsers + 1

\* C20: updateUserProfile called while authUser is null rejects with
\* 'No authenticated user' and leaves users, authUser and the stored
\* session as they were.
C20_ProfileNeedsAuthUser ==
    (lastAuth.op = "profile" /\ lastAuth.authAtCall = Null) =>
        /\ lastAuth.outcome = "rejected"
        /\ lastAuth.message = "No authenticated user"
        /\ AuthUnchanged

\* C20 witness: updateUserProfile rejected after a registered user had
\* logged out
C20_Witness ==
    /\ lastAuth.op = "profile"
    /\ lastAuth.outcome = "rejected"
    /\ lastAuth.authAtCall = Null
    /\ Len(users) = NumMockUsers + 1
    /\ authUser = Null

\* C22 (as claimed): once logout has resolved, authUser is null and the
\* 'fitmate_user' key absent, and an updateUserProfile call started before
\* the logout leaves them so when it settles.
C22_LogoutStaysLoggedOut ==
    ( /\ lastAuth.op = "profile"
      /\ lastAuth.authUser = Null
      /\ lastAuth.storedUser = Null )
    => /\ authUser = Null
       /\ storedUser = Null

\* C24 (as claimed): once handleAddFood has completed, on the day the page
\* was loaded, the page's todayStats calories, protein, carbs and fat are the
\* sums of the corresponding totals over the meals of the page's dailyLog.
C24_StatsMatchPageMeals ==
    ( /\ lastAdd.branch # "none"
      /\ NoAddInProgress
      /\ dailyLog # Null
      /\ dailyLog.date = today
      /\ lastAdd.day = today )
    => /\ todayStats.caloriesConsumed = CachedSum(dailyLog.meals, "totalCalories")
       /\ todayStats.proteinConsumed  = CachedSum(dailyLog.meals, "totalProtein")
       /\ todayStats.carbsConsumed    = CachedSum(dailyLog.meals, "totalCarbs")
       /\ todayStats.fatConsumed      = CachedSum(dailyLog.meals, "totalFat")

\* C25 (as claimed): no persisted log holds two Meals of one type.
C25_OneMealPerType ==
    \A k \in 1..Len(logs) :
        \A a, b \in 1..Len(logs[k].meals) :
            logs[k].meals[a].type = logs[k].meals[b].type => a = b

\* C26 (as claimed): with no midnight passed and no decrement made, once the
\* k increment clicks that passed the guard have all completed, today's
\* persisted waterIntake and the Dashboard's stats.waterIntake are both the
\* value the day's log held when the Dashboard was opened plus k.
C26_NoClickLost ==
    ( /\ today = SeedDay
      /\ lastClick.incs > 0
      /\ lastClick.decs = 0
      /\ PendingClicks = 0 )
    => /\ LogOf(logs, today).waterIntake
             = base[today].waterIntake + lastClick.incs
       /\ stats.waterIntake = base[today].waterIntake + lastClick.incs

\* C28: the writes of updateWaterIntake calls land in the order the calls
\* were issued, each storing its amount as today's waterIntake; so when
\* updateWaterIntake(a) was issued before updateWaterIntake(b) and both have
\* resolved, today's persisted waterIntake is b.
C28_WaterWritesInIssueOrder ==
    [][\A i \in 1..Len(timers) :
          (LandUpdateWaterIntake(i) /\ timers[i].owner = "api") =>
              /\ \A j \in 1..Len(timers) :
                    (timers[j].op = "water" /\ timers[j].owner = "api" /\ j # i)
                        => timers[j].closure.seq > timers[i].closure.seq
              /\ LogOf(logs', today).waterIntake = timers[i].arg]_vars

\* C28 witness: updateWaterIntake(13) was issued, then updateWaterIntake(3)
\* while the first was pending; both have resolved and the log holds 3
C28_Witness ==
    /\ last.op = "water"
    /\ last.overlap = "water"
    /\ last.arg = 3
    /\ HasLog(last.before, last.day)
    /\ LogOf(last.before, last.day).waterIntake = 13
    /\ LogOf(logs, last.day).waterIntake = 3
    /\ InFlight = {}

\* no toggleExerciseCompletion call of an ExerciseItem is pending
NoTogglePending == \A i \in 1..Len(timers) : timers[i].owner # "item"

\* C23 (as claimed): once every pending toggle has resolved, each exercise
\* of the Exercises page state has the completed flag that exercise has in
\* today's persisted log.
C23_PageMatchesStore ==
    ( /\ ~ exLoading
      /\ NoTogglePending )
    => \A k \in 1..Len(exercises) :
          \E e \in 1..Len(LogOf(logs, today).exercises) :
             /\ LogOf(logs, today).exercises[e].id = exercises[k].id
             /\ LogOf(logs, today).exercises[e].completed = exercises[k].completed

\* the page each protected path shows
ProtectedPages ==
    [p \in {"/dashboard", "/exercises", "/nutrition", "/progress", "/profile"} |->
        CASE p = "/dashboard" -> "Dashboard"
          [] p = "/exercises" -> "Exercises"
          [] p = "/nutrition" -> "Nutrition"
          [] p = "/progress"  -> "Progress"
          [] p = "/profile"   -> "Profile"]

\* the login page is what the user ends up on
AtLogin == location' = "/login" /\ rendered' = "Login"

C27_AuthUserAgreesWithStorage ==
    IF authUser = Null
    THEN storedUser = Null
    ELSE storedUser # Null /\ storedUser = Stringify(authUser)

\* C27 witness: a profile update with an undefined age was stored, and a
\* reload since then restored the session from the stored text, in which
\* age is no member
C27_Witness ==
    /\ reloads > 0
    /\ lastAuth.op = "profile"
    /\ lastAuth.outcome = "resolved"
    /\ lastAuth.arg.age = Undefined
    /\ authUser # Null
    /\ "age" \notin DOMAIN authUser
    /\ storedUser = Stringify(authUser)

\* C29: a module initialisation after the first one (a page reload) leaves
\* the values under the logs, foods and exercise catalog keys as they are.
C29_ReloadLeavesStoredData ==
    [][Reload => /\ logs' = logs
                 /\ foods' = foods
                 /\ exercisesStore' = exercisesStore]_vars

\* C29 witness: the page was reloaded after a water update and an exercise
\* toggle were stored, and the stored logs still hold both
C29_Witness ==
    /\ last.op = "reload"
    /\ last.before = logs
    /\ LogOf(logs, today).waterIntake = 3
    /\ LogOf(logs, today).exercises[1].completed
          # LogOf(MOCK_ALL_LOGS, SeedDay).exercises[1].completed

=============================================================================
